---- MODULE Spec2Model ----
(***************************************************************************)
(* Model of the email assistant backend (src/backend.py):                  *)
(*   EmailClassifier.classify_email      model call, else keyword rules    *)
(*   ResponseGenerator.generate_response model call, else templates        *)
(* Texts are TLA+ strings; Python's str methods are modelled character by  *)
(* character for the ASCII range the inputs are drawn from.                *)
(***************************************************************************)
EXTENDS Integers, Sequences, FiniteSets, TLC

-----------------------------------------------------------------------------
(* Python str primitives *)

ascii_lowercase == "abcdefghijklmnopqrstuvwxyz"

ascii_uppercase == "ABCDEFGHIJKLMNOPQRSTUVWXYZ"

CharAt(s, i) == SubSeq(s, i, i)

LowerMap ==
  [c \in {CharAt(ascii_uppercase, i) : i \in 1..26} |->
     CharAt(ascii_lowercase, CHOOSE i \in 1..26 : CharAt(ascii_uppercase, i) = c)]

UpperMap ==
  [c \in {CharAt(ascii_lowercase, i) : i \in 1..26} |->
     CharAt(ascii_uppercase, CHOOSE i \in 1..26 : CharAt(ascii_lowercase, i) = c)]

IsCased(c) == c \in DOMAIN LowerMap \/ c \in DOMAIN UpperMap

LowerChar(c) == IF c \in DOMAIN LowerMap THEN LowerMap[c] ELSE c

UpperChar(c) == IF c \in DOMAIN UpperMap THEN UpperMap[c] ELSE c

\* a lower() that leaves the text as it is
lower_identity(s) == s

\* str.lower()
RECURSIVE lower(_)
lower(s) ==
  IF s = "" THEN "" ELSE LowerChar(Head(s)) \o lower(Tail(s))

\* `sub in s`
Contains(sub, s) ==
  \E i \in 0..(Len(s) - Len(sub)) : SubSeq(s, i + 1, i + Len(sub)) = sub

\* str.find(sub): 0-based index of the first occurrence, -1 when absent
find(s, sub) ==
  LET hits == {i \in 0..(Len(s) - Len(sub)) : SubSeq(s, i + 1, i + Len(sub)) = sub}
  IN  IF hits = {} THEN -1 ELSE CHOOSE i \in hits : \A j \in hits : i <= j

\* str.rfind(sub): 0-based index of the last occurrence, -1 when absent
rfind(s, sub) ==
  LET hits == {i \in 0..(Len(s) - Len(sub)) : SubSeq(s, i + 1, i + Len(sub)) = sub}
  IN  IF hits = {} THEN -1 ELSE CHOOSE i \in hits : \A j \in hits : i >= j

\* s[start:end] for 0 <= start <= end
Slice(s, start, end) == SubSeq(s, start + 1, end)

\* s.split(sep)[0]: the text before the first sep, all of s when sep is absent
split_first(s, sep) ==
  IF find(s, sep) = -1 THEN s ELSE Slice(s, 0, find(s, sep))

\* s.replace(old, new) for a one-character old
RECURSIVE replace(_, _, _)
replace(s, old, new) ==
  IF s = "" THEN ""
  ELSE (IF Head(s) = old THEN new ELSE Head(s)) \o replace(Tail(s), old, new)

\* str.title(): a cased character is upper-cased after an uncased one (or
\* at the start) and lower-cased after a cased one
RECURSIVE title_from(_, _)
title_from(s, prev_cased) ==
  IF s = "" THEN ""
  ELSE LET c == Head(s)
       IN  (IF prev_cased THEN LowerChar(c) ELSE UpperChar(c))
             \o title_from(Tail(s), IsCased(c))

title(s) == title_from(s, FALSE)

Whitespace == {" ", "\t", "\n", "\r", "\f"}

RECURSIVE lstrip(_)
lstrip(s) ==
  IF s # "" /\ Head(s) \in Whitespace THEN lstrip(Tail(s)) ELSE s

RECURSIVE rstrip(_)
rstrip(s) ==
  IF s # "" /\ CharAt(s, Len(s)) \in Whitespace
  THEN rstrip(SubSeq(s, 1, Len(s) - 1)) ELSE s

\* str.strip()
strip(s) == rstrip(lstrip(s))

\* sep.join(parts)
RECURSIVE join(_, _)
join(sep, parts) ==
  IF parts = <<>> THEN ""
  ELSE IF Len(parts) = 1 THEN parts[1]
  ELSE parts[1] \o sep \o join(sep, Tail(parts))

-----------------------------------------------------------------------------
(* EmailClassifier: rule-based classification *)

\* the `categories` dict of _determine_category, in insertion order
categories == <<
  [name |-> "technical_support",
   keywords |-> <<"error", "bug", "not working", "broken", "issue", "problem",
                  "unable", "cannot", "can't", "reset", "password", "login",
                  "access">>],
  [name |-> "billing",
   keywords |-> <<"billing", "charge", "payment", "refund", "invoice", "cost",
                  "price", "pricing", "charged">>],
  [name |-> "account",
   keywords |-> <<"account", "verification", "verify", "blocked">>],
  [name |-> "integration",
   keywords |-> <<"api", "integration", "crm", "third-party">>],
  [name |-> "general",
   keywords |-> <<"help", "support", "question", "query", "understand">>] >>

high_priority_keywords ==
  <<"urgent", "critical", "immediate", "emergency", "down", "outage",
    "cannot access", "completely inaccessible", "servers are down">>

medium_priority_keywords ==
  <<"help", "support", "issue", "problem", "error", "unable">>

\* sum(1 for keyword in keywords if keyword in text)
score(keywords, text) ==
  Cardinality({i \in 1..Len(keywords) : Contains(keywords[i], text)})

\* scores[category] for the i-th category
scores(text) == [i \in 1..Len(categories) |-> score(categories[i].keywords, text)]

\* a maximum that lets a later key win a tie
RECURSIVE max_key_last(_, _, _)
max_key_last(sc, i, best) ==
  IF i > Len(sc) THEN best
  ELSE max_key_last(sc, i + 1, IF sc[i] >= sc[best] THEN i ELSE best)

\* max(scores, key=scores.get): the first key, in iteration order, whose
\* score no later key exceeds strictly
RECURSIVE max_key(_, _, _)
max_key(sc, i, best) ==
  IF i > Len(sc) THEN best
  ELSE max_key(sc, i + 1, IF sc[i] > sc[best] THEN i ELSE best)

\* a category decision without the all-zero default
_determine_category_no_default(subject, body) ==
  LET text == lower(subject \o " " \o body)
      sc   == scores(text)
  IN  categories[max_key(sc, 2, 1)].name

_determine_category(subject, body) ==
  LET text == lower(subject \o " " \o body)
      sc   == scores(text)
  IN  IF \E i \in 1..Len(sc) : sc[i] > 0
      THEN categories[max_key(sc, 2, 1)].name
      ELSE "general"

\* a scan that gives up after the first keyword of the list
any_keyword_first_only(keywords, text, i) ==
  i <= Len(keywords) /\ Contains(keywords[i], text)

\* for keyword in keywords: if keyword in text: return ...
RECURSIVE any_keyword(_, _, _)
any_keyword(keywords, text, i) ==
  IF i > Len(keywords) THEN FALSE
  ELSE IF Contains(keywords[i], text) THEN TRUE
  ELSE any_keyword(keywords, text, i + 1)

\* a priority decision that scans the medium list before the high list
_determine_priority_medium_first(subject, body) ==
  LET text == lower(subject \o " " \o body)
  IN  IF any_keyword(medium_priority_keywords, text, 1) THEN "medium"
      ELSE IF any_keyword(high_priority_keywords, text, 1) THEN "high"
      ELSE "low"

_determine_priority(subject, body) ==
  LET text == lower(subject \o " " \o body)
  IN  IF any_keyword(high_priority_keywords, text, 1) THEN "high"
      ELSE IF any_keyword(medium_priority_keywords, text, 1) THEN "medium"
      ELSE "low"

_generate_reasoning(category, priority, subject, body) ==
  LET text == lower(subject \o " " \o body)
      p1 == IF Contains("error", text) \/ Contains("issue", text) \/ Contains("problem", text)
            THEN <<"Contains technical issue keywords">> ELSE <<>>
      p2 == IF Contains("billing", text) \/ Contains("charge", text) \/ Contains("payment", text)
            THEN <<"Contains billing-related terms">> ELSE <<>>
      p3 == IF Contains("account", text) \/ Contains("verification", text) \/ Contains("login", text)
            THEN <<"Contains account-related terms">> ELSE <<>>
      p4 == IF Contains("api", text) \/ Contains("integration", text)
            THEN <<"Contains integration-related terms">> ELSE <<>>
      p5 == IF priority = "high" THEN <<"Contains urgent/critical keywords">>
            ELSE IF priority = "medium" THEN <<"Contains support-related keywords">>
            ELSE <<>>
      matched == p1 \o p2 \o p3 \o p4 \o p5
      reasoning_parts ==
        IF matched = <<>> THEN <<"General inquiry based on content analysis">>
        ELSE matched
  IN  "Classified as " \o category \o " with " \o priority \o " priority. "
        \o join("; ", reasoning_parts) \o "."

\* a classification that hands priority and category to the reasoning in
\* each other's place
_classify_rule_based_swapped(sender, subject, body) ==
  LET category == _determine_category(subject, body)
      priority == _determine_priority(subject, body)
      reasoning == _generate_reasoning(priority, category, subject, body)
  IN  [category |-> category, priority |-> priority, reasoning |-> reasoning]

_classify_rule_based(sender, subject, body) ==
  LET category == _determine_category(subject, body)
      priority == _determine_priority(subject, body)
      reasoning == _generate_reasoning(category, priority, subject, body)
  IN  [category |-> category, priority |-> priority, reasoning |-> reasoning]

-----------------------------------------------------------------------------
(* json.loads, for flat objects whose keys and values are strings without   *)
(* escapes; every response text the model draws is either of that shape or  *)
(* not JSON at all, so Fail stands for json.JSONDecodeError                 *)

At(s, i) == IF i \in 1..Len(s) THEN SubSeq(s, i, i) ELSE ""

JSONWhitespace == {" ", "\t", "\n", "\r"}

RECURSIVE skip_ws(_, _)
skip_ws(s, i) == IF At(s, i) \in JSONWhitespace THEN skip_ws(s, i + 1) ELSE i

Fail == [ok |-> FALSE]

EmptyDict == [k \in {} |-> ""]

\* a string literal opening at index i: its text and the index after it
scan_string(s, i) ==
  IF At(s, i) # "\"" THEN Fail
  ELSE LET closes == {j \in (i + 1)..Len(s) : At(s, j) = "\""}
       IN  IF closes = {} THEN Fail
           ELSE LET j == CHOOSE j \in closes : \A k \in closes : j <= k
                IN  [ok |-> TRUE, val |-> SubSeq(s, i + 1, j - 1), next |-> j + 1]

\* "key": "value" pairs up to the closing brace; a repeated key keeps the
\* last value
RECURSIVE parse_members(_, _, _)
parse_members(s, i, d) ==
  LET k == scan_string(s, skip_ws(s, i))
  IN  IF ~k.ok THEN Fail
      ELSE LET c == skip_ws(s, k.next)
           IN  IF At(s, c) # ":" THEN Fail
               ELSE LET v == scan_string(s, skip_ws(s, c + 1))
                    IN  IF ~v.ok THEN Fail
                        ELSE LET e  == skip_ws(s, v.next)
                                 d2 == (k.val :> v.val) @@ d
                             IN  IF At(s, e) = "," THEN parse_members(s, e + 1, d2)
                                 ELSE IF At(s, e) = "}" /\ skip_ws(s, e + 1) > Len(s)
                                 THEN [ok |-> TRUE, value |-> d2]
                                 ELSE Fail

json_loads(s) ==
  LET i == skip_ws(s, 1)
  IN  IF At(s, i) # "{" THEN Fail
      ELSE LET j == skip_ws(s, i + 1)
           IN  IF At(s, j) = "}"
               THEN (IF skip_ws(s, j + 1) > Len(s)
                     THEN [ok |-> TRUE, value |-> EmptyDict] ELSE Fail)
               ELSE parse_members(s, j, EmptyDict)

-----------------------------------------------------------------------------
(* Exceptions and the model endpoint *)

\* requests.exceptions.RequestException and the subclasses the call can raise
RequestException ==
  {"RequestException", "ConnectionError", "Timeout", "requests.JSONDecodeError"}

\* every class below derives from Exception
Exception ==
  RequestException \cup {"Exception", "ValueError", "AttributeError"}

Raise(exc, calls) == [kind |-> "raise", exc |-> exc, calls |-> calls]

Return(value, calls) == [kind |-> "return", value |-> value, calls |-> calls]

\* result.get('response', ''): the value's type and, for a str, its text
result_get_response(result) ==
  IF result.has_response THEN result.response ELSE [type |-> "str", text |-> ""]

\* a validation that accepts a classification carrying any one of the keys
has_required_keys_any(classification) ==
  \E key \in {"category", "priority", "reasoning"} : key \in DOMAIN classification

\* all(key in classification for key in ['category', 'priority', 'reasoning'])
has_required_keys(classification) ==
  \A key \in {"category", "priority", "reasoning"} : key \in DOMAIN classification

\* lines 74-105: the try block around requests.post and the response handling
_classify_with_llama(sender, subject, body, post) ==
  LET calls == <<"requests.post">>
  IN
  IF post.kind = "raise"
  THEN (IF post.exc \in RequestException
        THEN Raise("Exception", calls) ELSE Raise(post.exc, calls))
  ELSE IF post.status_code = 200
  THEN LET result == post.json
       IN  IF result.kind = "raise"
           THEN (IF result.exc \in RequestException
                 THEN Raise("Exception", calls) ELSE Raise(result.exc, calls))
           ELSE IF result.kind # "dict"
           THEN Raise("AttributeError", calls)        \* list has no .get
           ELSE LET response == result_get_response(result)
                IN  IF response.type # "str"
                    THEN Raise("AttributeError", calls)   \* no .find
                    ELSE
                    LET response_text == response.text
                        start_idx == find(response_text, "{")
                        end_idx   == rfind(response_text, "}") + 1
                    IN  IF start_idx # -1 /\ end_idx > start_idx
                        THEN LET json_str == Slice(response_text, start_idx, end_idx)
                                 classification == json_loads(json_str)
                             IN  IF classification.ok
                                    /\ has_required_keys(classification.value)
                                 THEN Return(classification.value, calls)
                                 ELSE Raise("Exception", calls)
                        ELSE Raise("Exception", calls)
  ELSE Raise("Exception", calls)

\* an entry point whose handler catches RequestException only
classify_email_catch_request(sender, subject, body, post) ==
  LET llama == _classify_with_llama(sender, subject, body, post)
  IN  IF llama.kind = "return" THEN llama
      ELSE IF llama.exc \in RequestException
      THEN Return(_classify_rule_based(sender, subject, body),
                  llama.calls \o <<"_classify_rule_based">>)
      ELSE llama

\* lines 26-31: try the model, on any Exception fall back to the rules
classify_email(sender, subject, body, post) ==
  LET llama == _classify_with_llama(sender, subject, body, post)
  IN  IF llama.kind = "return" THEN llama
      ELSE IF llama.exc \in Exception
      THEN Return(_classify_rule_based(sender, subject, body),
                  llama.calls \o <<"_classify_rule_based">>)
      ELSE llama

-----------------------------------------------------------------------------
(* ResponseGenerator *)

\* dict.get(key, default)
get(d, key, default) == IF key \in DOMAIN d THEN d[key] ELSE default

sender_name_of(sender) == title(replace(split_first(sender, "@"), ".", " "))

greetings(sender_name) ==
  [professional |-> "Dear " \o sender_name \o ",",
   friendly     |-> "Hi " \o sender_name \o "!",
   formal       |-> "Dear " \o sender_name \o ",",
   casual       |-> "Hey " \o sender_name \o ","]

templates ==
  [
   technical_support |-> [
     professional |->
       "Thank you for reaching out regarding the technical issue you're experiencing. I understand how frustrating this must be. Our technical team will investigate this matter promptly and provide you with a resolution within 24 hours.",
     friendly |->
       "Thanks for letting us know about this issue! I totally understand how annoying technical problems can be. Our team is on it and we'll get this sorted out for you ASAP.",
     formal |->
       "We acknowledge receipt of your technical support request. Our engineering team will conduct a thorough investigation and provide you with a comprehensive solution within one business day.",
     casual |->
       "Got it! Thanks for the heads up about this issue. Our tech team will take a look and get back to you soon."],
   billing |-> [
     professional |->
       "Thank you for contacting us about your billing inquiry. I will personally review your account and ensure any discrepancies are resolved immediately. You can expect a follow-up within 2 business hours.",
     friendly |->
       "Thanks for reaching out about your billing question! I'll take a look at your account right away and make sure everything is sorted out for you.",
     formal |->
       "We have received your billing inquiry and will conduct a comprehensive review of your account. Any necessary adjustments will be processed within 2 business hours.",
     casual |->
       "Hey! Thanks for the message about billing. I'll check your account and fix any issues right away."],
   account |-> [
     professional |->
       "Thank you for your account-related inquiry. I will assist you in resolving this matter promptly. Please allow me to review your account details and provide you with the necessary steps to resolve this issue.",
     friendly |->
       "Thanks for reaching out about your account! I'm here to help you get everything sorted out. Let me look into this for you.",
     formal |->
       "We acknowledge your account verification request. Our security team will review your account and provide the necessary assistance within 4 business hours.",
     casual |->
       "Hey! No worries about the account issue - I'll help you get it sorted out quickly."],
   integration |-> [
     professional |->
       "Thank you for your inquiry about our integration capabilities. I would be happy to provide you with detailed information about our API and CRM integration options. Our technical sales team will contact you within 24 hours.",
     friendly |->
       "Thanks for asking about our integrations! We have some great API and CRM options that I think you'll love. I'll have our tech team reach out with all the details.",
     formal |->
       "We appreciate your interest in our integration solutions. Our technical team will provide you with comprehensive documentation and integration options within one business day.",
     casual |->
       "Cool question about integrations! We've got some solid API options. I'll have the team send over the details soon."],
   general |-> [
     professional |->
       "Thank you for reaching out to us. I have received your inquiry and will ensure you receive the appropriate assistance. Our team will respond with detailed information within 24 hours.",
     friendly |->
       "Thanks for getting in touch! I've got your message and will make sure you get the help you need.",
     formal |->
       "We acknowledge receipt of your inquiry. Our customer service team will provide you with a comprehensive response within one business day.",
     casual |->
       "Hey! Thanks for reaching out. I'll make sure you get the info you need."]]

closings ==
  [professional |-> "Best regards,\nCustomer Support Team",
   friendly |-> "Cheers!\nThe Support Team",
   formal |-> "Sincerely,\nCustomer Service Department",
   casual |-> "Talk soon!\nSupport Team"]

\* a builder that takes the professional body of the category for every tone
_generate_template_response_fixed_body(sender, subject, body, category, tone) ==
  LET sender_name == sender_name_of(sender)
      greeting == get(greetings(sender_name), tone, greetings(sender_name)["professional"])
      content  == get(templates, category, templates["general"])["professional"]
      closing  == get(closings, tone, closings["professional"])
  IN  greeting \o "\n\n" \o content
        \o "\n\nIf you have any additional questions, please don't hesitate to reach out.\n\n"
        \o closing

\* a builder that takes the (general, professional) body for every pair the
\* table lacks
_generate_template_response_pair_default(sender, subject, body, category, tone) ==
  LET sender_name == sender_name_of(sender)
      greeting == get(greetings(sender_name), tone, greetings(sender_name)["professional"])
      content  == IF category \in DOMAIN templates /\ tone \in DOMAIN templates[category]
                  THEN templates[category][tone]
                  ELSE templates["general"]["professional"]
      closing  == get(closings, tone, closings["professional"])
  IN  greeting \o "\n\n" \o content
        \o "\n\nIf you have any additional questions, please don't hesitate to reach out.\n\n"
        \o closing

\* a builder whose body falls back to the professional body of the category
_generate_template_response_own_category(sender, subject, body, category, tone) ==
  LET sender_name == sender_name_of(sender)
      greeting == get(greetings(sender_name), tone, greetings(sender_name)["professional"])
      of_category == get(templates, category, templates["general"])
      content  == get(of_category, tone, of_category["professional"])
      closing  == get(closings, tone, closings["professional"])
  IN  greeting \o "\n\n" \o content
        \o "\n\nIf you have any additional questions, please don't hesitate to reach out.\n\n"
        \o closing

_generate_template_response(sender, subject, body, category, tone) ==
  LET sender_name == sender_name_of(sender)
      greeting == get(greetings(sender_name), tone, greetings(sender_name)["professional"])
      content  == get(get(templates, category, templates["general"]),
                      tone, templates["general"]["professional"])
      closing  == get(closings, tone, closings["professional"])
  IN  greeting \o "\n\n" \o content
        \o "\n\nIf you have any additional questions, please don't hesitate to reach out.\n\n"
        \o closing

\* lines 256-273: the try block around requests.post and the response handling
_generate_with_llama(sender, subject, body, category, tone, post) ==
  LET calls == <<"requests.post">>
  IN
  IF post.kind = "raise"
  THEN (IF post.exc \in RequestException
        THEN Raise("Exception", calls) ELSE Raise(post.exc, calls))
  ELSE IF post.status_code = 200
  THEN LET result == post.json
       IN  IF result.kind = "raise"
           THEN (IF result.exc \in RequestException
                 THEN Raise("Exception", calls) ELSE Raise(result.exc, calls))
           ELSE IF result.kind # "dict"
           THEN Raise("AttributeError", calls)        \* list has no .get
           ELSE LET response == result_get_response(result)
                IN  IF response.type # "str"
                    THEN Raise("AttributeError", calls)   \* no .strip
                    ELSE LET response_text == strip(response.text)
                         IN  IF response_text # ""
                             THEN Return(response_text, calls)
                             ELSE Raise("Exception", calls)
  ELSE Raise("Exception", calls)

\* an entry point that asks the model a second time before falling back
generate_response_retry(sender, subject, body, category, tone, post) ==
  LET llama == _generate_with_llama(sender, subject, body, category, tone, post)
  IN  IF llama.kind = "return" THEN llama
      ELSE Return(_generate_template_response(sender, subject, body, category, tone),
                  llama.calls \o llama.calls \o <<"_generate_template_response">>)

\* lines 211-216: try the model, on any Exception fall back to the templates
generate_response(sender, subject, body, category, tone, post) ==
  LET llama == _generate_with_llama(sender, subject, body, category, tone, post)
  IN  IF llama.kind = "return" THEN llama
      ELSE IF llama.exc \in Exception
      THEN Return(_generate_template_response(sender, subject, body, category, tone),
                  llama.calls \o <<"_generate_template_response">>)
      ELSE llama

-----------------------------------------------------------------------------
(* Inputs *)

MaxWords == 2

Fragments ==
  {"URGENT", "error", "account", "charged", "help", "hello"}

\* texts of at most n fragments separated by single spaces
RECURSIVE Texts(_)
Texts(n) ==
  IF n = 0 THEN {""}
  ELSE Texts(n - 1) \cup Fragments
         \cup {t \o " " \o f : t \in Texts(n - 1) \ {""}, f \in Fragments}

Senders == {"jane.doe@example.com", "nouser"}

Subjects == {"", "Urgent", "Rapid", "Invoice question", "Servers are down"}

Bodies ==
  Texts(MaxWords)
    \cup {"Our production servers are down, urgent please help",
          "I was charged twice this month, please refund"}

KnownCategories == {"technical_support", "billing", "account", "integration", "general"}

KnownPriorities == {"high", "medium", "low"}

KnownTones == {"professional", "friendly", "formal", "casual"}

\* category and tone arguments of generate_response: any strings
CategoryArgs == KnownCategories \cup {"spam", ""}

ToneArgs == KnownTones \cup {"angry", "Professional"}

\* texts the model may put in the 'response' field
ResponseTexts ==
  {"",
   "  \n ",
   "I cannot classify this email.",
   "{",
   "} nothing {",
   "{}",
   "{category: billing}",
   "{\"category\": \"billing\", \"priority\": \"low\"}",
   "{\"category\": \"billing\", \"priority\": \"low\", \"reasoning\": \"about money\"}",
   "Sure! {\"reasoning\": \"r\", \"priority\": \"medium\", \"category\": \"account\"} Hope this helps.",
   "{\"category\": \"spam\", \"priority\": \"urgent\", \"reasoning\": \"r\"}",
   "{\"category\": \"general\", \"priority\": \"low\", \"reasoning\": \"a\"} or {\"category\": \"billing\", \"priority\": \"low\", \"reasoning\": \"b\"}",
   " Dear Jane,\nwe are looking into it.\n"}

NoJson == [kind |-> "none", exc |-> "", has_response |-> FALSE,
           response |-> [type |-> "str", text |-> ""]]

\* what response.json() yields: an exception, a JSON array, or an object
\* with or without a 'response' member (null, a number or a string)
JsonOutcomes ==
  {[NoJson EXCEPT !.kind = "raise", !.exc = e] : e \in {"requests.JSONDecodeError", "ValueError"}}
    \cup {[NoJson EXCEPT !.kind = "list"]}
    \cup {[NoJson EXCEPT !.kind = "dict"]}
    \cup {[NoJson EXCEPT !.kind = "dict", !.has_response = TRUE, !.response = [type |-> ty, text |-> ""]] :
            ty \in {"NoneType", "int"}}
    \cup {[NoJson EXCEPT !.kind = "dict", !.has_response = TRUE, !.response = [type |-> "str", text |-> t]] :
            t \in ResponseTexts}

\* what requests.post does: raises, or answers with a status and a body
PostOutcomes ==
  {[kind |-> "raise", exc |-> e, status_code |-> 0, json |-> NoJson] : e \in {"ConnectionError", "Timeout"}}
    \cup {[kind |-> "response", exc |-> "", status_code |-> c, json |-> NoJson] : c \in {404, 500}}
    \cup {[kind |-> "response", exc |-> "", status_code |-> 200, json |-> j] : j \in JsonOutcomes}

-----------------------------------------------------------------------------
(* State *)

VARIABLES
  op,     \* entry point of the call in progress, "none" between calls
  args,   \* its arguments
  post,   \* what the model endpoint did during the call
  llama,  \* outcome of the model call: a value returned or an exception
  ret     \* outcome of the entry point

vars == <<op, args, post, llama, ret>>

NoArgs == [sender |-> "", subject |-> "", body |-> "", category |-> "", tone |-> ""]

NoPost == [kind |-> "none", exc |-> "", status_code |-> 0, json |-> NoJson]

NoOutcome == [kind |-> "none"]

Init ==
  /\ op = "none"
  /\ args = NoArgs
  /\ post = NoPost
  /\ llama = NoOutcome
  /\ ret = NoOutcome

\* EmailClassifier.classify_email(sender, subject, body)
ClassifyEmail ==
  /\ op = "none"
  /\ \E sender \in Senders, subject \in Subjects, body \in Bodies, p \in PostOutcomes :
       /\ op' = "classify_email"
       /\ args' = [NoArgs EXCEPT !.sender = sender, !.subject = subject, !.body = body]
       /\ post' = p
       /\ llama' = _classify_with_llama(sender, subject, body, p)
       /\ ret' = classify_email(sender, subject, body, p)

\* the (subject, body) pairs response generation is called with
GenerateEmails ==
  {<<"", "">>,
   <<"Invoice question", "I was charged twice this month, please refund">>}

\* ResponseGenerator.generate_response(sender, subject, body, category, tone)
GenerateResponse ==
  /\ op = "none"
  /\ \E sender \in Senders, email \in GenerateEmails,
        category \in CategoryArgs, tone \in ToneArgs, p \in PostOutcomes :
       /\ op' = "generate_response"
       /\ args' = [sender |-> sender, subject |-> email[1], body |-> email[2],
                   category |-> category, tone |-> tone]
       /\ post' = p
       /\ llama' = _generate_with_llama(sender, email[1], email[2], category, tone, p)
       /\ ret' = generate_response(sender, email[1], email[2], category, tone, p)

\* the caller is done with the result; the next call starts afresh
Rerun ==
  /\ op # "none"
  /\ op' = "none"
  /\ args' = NoArgs
  /\ post' = NoPost
  /\ llama' = NoOutcome
  /\ ret' = NoOutcome

Next == ClassifyEmail \/ GenerateResponse \/ Rerun

Spec == Init /\ [][Next]_vars

-----------------------------------------------------------------------------
(* Properties *)

\* the model attempt failed and the deterministic path produced the result
RuleBased == op = "classify_email" /\ llama.kind = "raise" /\ ret.kind = "return"

Templated == op = "generate_response" /\ llama.kind = "raise" /\ ret.kind = "return"

\* the text of the 'response' member the endpoint sent ('' when it sent none)
ResponseText ==
  IF post.json.has_response THEN post.json.response.text ELSE ""

\* the endpoint answered 200 with a JSON object whose 'response' is a string
AnsweredText ==
  /\ post.kind = "response"
  /\ post.status_code = 200
  /\ post.json.kind = "dict"
  /\ post.json.has_response => post.json.response.type = "str"

\* word occurs in s with each letter in either case
ContainsAnyCase(word, s) ==
  \E i \in 0..(Len(s) - Len(word)) :
    \A k \in 1..Len(word) : LowerChar(CharAt(s, i + k)) = CharAt(word, k)

\* C1: every result of classify_email, whatever the endpoint does, has its
\* category among the five known categories and its priority among the
\* three known priorities.
C1_ResultInVocabulary ==
  op = "classify_email" =>
    /\ ret.kind = "return"
    /\ ret.value.category \in KnownCategories
    /\ ret.value.priority \in KnownPriorities

\* C2: classify_email and generate_response never raise: every call returns,
\* a classification with its three keys or a non-empty response text.
C2_NeverRaises ==
  /\ op = "classify_email" =>
       /\ ret.kind = "return"
       /\ {"category", "priority", "reasoning"} \subseteq DOMAIN ret.value
  /\ op = "generate_response" =>
       /\ ret.kind = "return"
       /\ Len(ret.value) > 0

\* an AttributeError (the body was a JSON array) absorbed for empty strings
C2_Witness ==
  /\ op = "classify_email"
  /\ args.subject = "" /\ args.body = ""
  /\ post.json.kind = "list"
  /\ llama.kind = "raise" /\ llama.exc = "AttributeError"
  /\ ret.kind = "return"

FallbackOf(entry) ==
  IF entry = "classify_email" THEN "_classify_rule_based"
  ELSE "_generate_template_response"

Occurrences(name, calls) == Cardinality({i \in 1..Len(calls) : calls[i] = name})

\* C3: in every call the model request comes first and is made exactly once;
\* the deterministic path runs iff the attempt failed, and after it; a
\* successful attempt's value is returned unchanged.
C3_ModelFirstOnceThenFallback ==
  op # "none" =>
    /\ ret.calls[1] = "requests.post"
    /\ Occurrences("requests.post", ret.calls) = 1
    /\ Occurrences(FallbackOf(op), ret.calls) = (IF llama.kind = "raise" THEN 1 ELSE 0)
    /\ llama.kind = "raise" => ret.calls = <<"requests.post", FallbackOf(op)>>
    /\ llama.kind = "return" => ret.kind = "return" /\ ret.value = llama.value

\* a failed generation attempt followed by the template path
C3_Witness ==
  /\ op = "generate_response"
  /\ post.kind = "response" /\ post.status_code = 500
  /\ llama.kind = "raise"
  /\ ret.calls = <<"requests.post", "_generate_template_response">>

\* the text has a '{' before a '}'
HasBraceSpan(t) ==
  \E i, j \in 1..Len(t) : i < j /\ CharAt(t, i) = "{" /\ CharAt(t, j) = "}"

\* from the first '{' through the last '}'
BraceSpan(t) ==
  LET opens  == {i \in 1..Len(t) : CharAt(t, i) = "{"}
      closes == {j \in 1..Len(t) : CharAt(t, j) = "}"}
  IN  SubSeq(t, CHOOSE i \in opens : \A k \in opens : i <= k,
                CHOOSE j \in closes : \A k \in closes : j >= k)

BlankText(t) == \A i \in 1..Len(t) : CharAt(t, i) \in Whitespace

\* C4: the model call raises on a transport failure, on a non-200 status,
\* for classification when the text has no brace span, the span is not JSON
\* or the object lacks one of the three keys, and for generation when the
\* text is blank; what it returns is complete.
C4_ModelCallFailsCleanly ==
  /\ op # "none" /\ post.kind = "raise" => llama.kind = "raise"
  /\ op # "none" /\ post.kind = "response" /\ post.status_code # 200 => llama.kind = "raise"
  /\ op = "classify_email" /\ AnsweredText =>
       /\ ~HasBraceSpan(ResponseText) => llama.kind = "raise"
       /\ HasBraceSpan(ResponseText) /\ ~json_loads(BraceSpan(ResponseText)).ok =>
            llama.kind = "raise"
       /\ /\ HasBraceSpan(ResponseText)
          /\ json_loads(BraceSpan(ResponseText)).ok
          /\ \E key \in {"category", "priority", "reasoning"} :
               key \notin DOMAIN json_loads(BraceSpan(ResponseText)).value
          => llama.kind = "raise"
  /\ op = "classify_email" /\ llama.kind = "return" =>
       {"category", "priority", "reasoning"} \subseteq DOMAIN llama.value
  /\ op = "generate_response" /\ AnsweredText /\ BlankText(ResponseText) =>
       llama.kind = "raise"
  /\ op = "generate_response" /\ llama.kind = "return" => ~BlankText(llama.value)

\* an object with category and priority but no reasoning is refused
C4_Witness ==
  /\ op = "classify_email"
  /\ AnsweredText
  /\ ResponseText = "{\"category\": \"billing\", \"priority\": \"low\"}"
  /\ llama.kind = "raise"

Urgent == ContainsAnyCase("urgent", args.subject) \/ ContainsAnyCase("urgent", args.body)

\* C5 as stated: with "urgent" in the subject or the body, in any letter
\* case, classify_email returns priority high whatever the endpoint does.
C5_UrgentAlwaysHigh ==
  op = "classify_email" /\ Urgent => ret.value.priority = "high"

\* C5 amended: with "urgent" in the subject or the body, in any letter case,
\* the priority is high whenever the model attempt fails, whatever category
\* keywords are present.
C5_UrgentHighWhenRuleBased ==
  RuleBased /\ Urgent => ret.value.priority = "high"

\* upper-case URGENT beside billing keywords, classified by the rules
C5_Witness ==
  /\ RuleBased
  /\ args.body = "URGENT charged"
  /\ ret.value.category = "billing"
  /\ ret.value.priority = "high"

\* the text the rules look at
LoweredText == lower(args.subject \o " " \o args.body)

\* number of keywords of the i-th category occurring in text
KeywordHits(i, text) ==
  Cardinality({k \in 1..Len(categories[i].keywords) :
                 Contains(categories[i].keywords[k], text)})

NoCategoryKeyword(text) == \A i \in 1..Len(categories) : KeywordHits(i, text) = 0

HighTrigger(text) ==
  \E k \in 1..Len(high_priority_keywords) : Contains(high_priority_keywords[k], text)

MediumTrigger(text) ==
  \E k \in 1..Len(medium_priority_keywords) : Contains(medium_priority_keywords[k], text)

\* C6 as stated: a text in which no category keyword occurs is classified
\* by the rules as general with priority low.
C6_NoKeywordGeneralLow ==
  RuleBased /\ NoCategoryKeyword(LoweredText) =>
    ret.value.category = "general" /\ ret.value.priority = "low"

\* C6 amended: a text in which no category keyword occurs is classified by
\* the rules as general; its priority is low when no high-priority trigger
\* occurs either, and high when one does.
C6_NoKeywordGeneralLowUnlessHighTrigger ==
  LET text == LoweredText
  IN  RuleBased /\ NoCategoryKeyword(text) =>
        /\ ret.value.category = "general"
        /\ ret.value.priority = (IF HighTrigger(text) THEN "high" ELSE "low")

\* a non-empty text without any keyword
C6_Witness ==
  /\ RuleBased
  /\ args.subject = "" /\ args.body = "hello"
  /\ NoCategoryKeyword(LoweredText)
  /\ ret.value.category = "general" /\ ret.value.priority = "low"

\* C7: the rules pick the category with the most keyword hits, among equals
\* the one declared first, and general when there is no hit; one hit for
\* "error" and one for "account" give technical_support.
C7_HighestCountFirstDeclared ==
  LET text == LoweredText
      hits == [i \in 1..Len(categories) |-> KeywordHits(i, text)]
  IN  RuleBased =>
        /\ IF \A i \in 1..Len(categories) : hits[i] = 0
           THEN ret.value.category = "general"
           ELSE \E i \in 1..Len(categories) :
                  /\ ret.value.category = categories[i].name
                  /\ \A j \in 1..Len(categories) : hits[j] <= hits[i]
                  /\ \A j \in 1..(i - 1) : hits[j] < hits[i]
        /\ args.subject = "" /\ args.body = "error account" =>
             ret.value.category = "technical_support"

\* technical_support and account tie with one hit each
C7_Witness ==
  /\ RuleBased
  /\ args.subject = "" /\ args.body = "error account"
  /\ KeywordHits(1, LoweredText) = 1 /\ KeywordHits(3, LoweredText) = 1
  /\ ret.value.category = "technical_support"

ServersDown ==
  /\ RuleBased
  /\ args.subject = "Servers are down"
  /\ args.body = "Our production servers are down, urgent please help"

\* C8 as stated: the rules classify the "Servers are down" email as
\* technical_support with priority high.
C8_ServersDownTechnicalHigh ==
  ServersDown =>
    ret.value.category = "technical_support" /\ ret.value.priority = "high"

\* C8 amended: the rules classify the "Servers are down" email as general
\* (its only category keyword is "help") with priority high.
C8_ServersDownGeneralHigh ==
  ServersDown =>
    ret.value.category = "general" /\ ret.value.priority = "high"

C8_Witness ==
  /\ ServersDown
  /\ KeywordHits(1, LoweredText) = 0 /\ KeywordHits(5, LoweredText) = 1
  /\ HighTrigger(LoweredText) /\ MediumTrigger(LoweredText)

InvoiceQuestion ==
  /\ RuleBased
  /\ args.subject = "Invoice question"
  /\ args.body = "I was charged twice this month, please refund"

\* C9: the rule-based priority is high if a high trigger occurs, else medium
\* if a medium trigger occurs, else low, whatever the category; the "Invoice
\* question" email is billing with priority low.
C9_PriorityByTier ==
  LET text == LoweredText
  IN  /\ RuleBased =>
           ret.value.priority =
             (IF HighTrigger(text) THEN "high"
              ELSE IF MediumTrigger(text) THEN "medium" ELSE "low")
      /\ InvoiceQuestion =>
           ret.value.category = "billing" /\ ret.value.priority = "low"

C9_Witness ==
  /\ InvoiceQuestion
  /\ ~HighTrigger(LoweredText) /\ ~MediumTrigger(LoweredText)
  /\ ret.value.category = "billing" /\ ret.value.priority = "low"

\* C10 as stated: for a tone outside the four the template output is that
\* of tone professional for the same category, and for a category outside
\* the five it is that of category general for the same tone.
C10_ToneAndCategoryDefaultIndependently ==
  Templated =>
    /\ args.tone \notin KnownTones =>
         ret.value = _generate_template_response(args.sender, args.subject, args.body,
                                                 args.category, "professional")
    /\ args.category \notin KnownCategories =>
         ret.value = _generate_template_response(args.sender, args.subject, args.body,
                                                 "general", args.tone)

\* C10 amended: for a tone outside the four the template output is that of
\* category general with tone professional, whatever the category; for a
\* category outside the five it is that of category general for the same
\* tone.
C10_UnknownToneGivesGeneralProfessional ==
  Templated =>
    /\ args.tone \notin KnownTones =>
         ret.value = _generate_template_response(args.sender, args.subject, args.body,
                                                 "general", "professional")
    /\ args.category \notin KnownCategories =>
         ret.value = _generate_template_response(args.sender, args.subject, args.body,
                                                 "general", args.tone)

\* a known category with an unknown tone, answered from the templates
C10_Witness ==
  /\ Templated
  /\ args.category = "billing" /\ args.tone = "angry"
  /\ Contains(templates["general"]["professional"], ret.value)

\* the second paragraph of a response: the text between the first blank
\* line and the next one
BodyParagraph(response) ==
  LET after_greeting == SubSeq(response, find(response, "\n\n") + 3, Len(response))
  IN  SubSeq(after_greeting, 1, find(after_greeting, "\n\n"))

\* the table has a body for each of the five categories under each of the
\* four tones
TableComplete ==
  /\ DOMAIN templates = KnownCategories
  /\ \A c \in KnownCategories : DOMAIN templates[c] = KnownTones

\* C11 as stated: the table is complete, and for every (category, tone)
\* outside it the template output carries the (general, professional) body.
C11_MissingPairGivesGeneralProfessional ==
  /\ TableComplete
  /\ Templated /\ (args.category \notin KnownCategories \/ args.tone \notin KnownTones) =>
       BodyParagraph(ret.value) = templates["general"]["professional"]

\* C11 amended: the table is complete; for a tone outside the four the
\* output carries the (general, professional) body, and for a category
\* outside the five with one of the four tones it carries the general body
\* of that tone.
C11_MissingPairGivesGeneralBody ==
  /\ TableComplete
  /\ Templated /\ args.tone \notin KnownTones =>
       BodyParagraph(ret.value) = templates["general"]["professional"]
  /\ Templated /\ args.category \notin KnownCategories /\ args.tone \in KnownTones =>
       BodyParagraph(ret.value) = templates["general"][args.tone]

\* an unknown category with a known tone, answered from the templates
C11_Witness ==
  /\ Templated
  /\ args.category = "spam" /\ args.tone = "friendly"
  /\ BodyParagraph(ret.value) = templates["general"]["friendly"]

\* the fallback of generate_response was entered for a category and a tone
\* of the table
TemplateCall ==
  /\ op = "generate_response"
  /\ llama.kind = "raise"
  /\ args.category \in KnownCategories
  /\ args.tone \in KnownTones

\* C12: for each of the five categories and four tones the template builder
\* returns a non-empty text; the other three tones of the same category and
\* sender give a different text with a different body paragraph; building
\* the same (sender, category, tone) again gives the identical text.
C12_TonesGiveDistinctOutputs ==
  TemplateCall =>
    /\ ret.kind = "return"
    /\ Len(ret.value) > 0
    /\ Len(BodyParagraph(ret.value)) > 0
    /\ \A other_tone \in KnownTones \ {args.tone} :
         LET other == _generate_template_response(args.sender, args.subject, args.body,
                                                  args.category, other_tone)
         IN  /\ ret.value # other
             /\ BodyParagraph(ret.value) # BodyParagraph(other)
    /\ ret.value = _generate_template_response(args.sender, args.subject, args.body,
                                               args.category, args.tone)

\* formal and professional share the greeting and differ in body and closing
C12_Witness ==
  /\ TemplateCall
  /\ args.category = "account" /\ args.tone = "formal"
  /\ ret.kind = "return"
  /\ BodyParagraph(ret.value) = templates["account"]["formal"]
  /\ SubSeq(ret.value, 1, 5) = "Dear "

\* the word groups the reasoning looks for, in the order of their clauses
ReasoningGroups == <<
  [words |-> {"error", "issue", "problem"},
   clause |-> "Contains technical issue keywords"],
  [words |-> {"billing", "charge", "payment"},
   clause |-> "Contains billing-related terms"],
  [words |-> {"account", "verification", "login"},
   clause |-> "Contains account-related terms"],
  [words |-> {"api", "integration"},
   clause |-> "Contains integration-related terms"] >>

\* the clauses of the groups with a word in text, then the priority clause
MatchedClauses(text, priority) ==
  LET Matches(g) == \E w \in g.words : Contains(w, text)
      groups == SelectSeq(ReasoningGroups, Matches)
  IN  [i \in 1..Len(groups) |-> groups[i].clause]
        \o (IF priority = "high" THEN <<"Contains urgent/critical keywords">>
            ELSE IF priority = "medium" THEN <<"Contains support-related keywords">>
            ELSE <<>>)

FallbackClause == "General inquiry based on content analysis"

\* C13: the reasoning of a rule-based classification is "Classified as
\* {category} with {priority} priority. " with the category and priority
\* of the same result, then the clauses of the matched groups (issue,
\* billing, account, integration, priority) in that order joined by "; " and
\* closed by "."; the fallback clause appears iff no clause matched, and
\* then alone.
C13_ReasoningFormat ==
  RuleBased =>
    LET reasoning == ret.value.reasoning
        prefix  == "Classified as " \o ret.value.category \o " with "
                     \o ret.value.priority \o " priority. "
        clauses == MatchedClauses(LoweredText, ret.value.priority)
        rest    == SubSeq(reasoning, Len(prefix) + 1, Len(reasoning))
    IN  /\ Len(reasoning) > Len(prefix)
        /\ SubSeq(reasoning, 1, Len(prefix)) = prefix
        /\ clauses # <<>> => rest = join("; ", clauses) \o "."
        /\ clauses = <<>> => rest = FallbackClause \o "."
        /\ Contains(FallbackClause, reasoning) <=> clauses = <<>>

\* a billing clause, an account clause and the priority clause, in order
C13_Witness ==
  /\ RuleBased
  /\ args.subject = "Urgent" /\ args.body = "charged account"
  /\ ret.value.reasoning =
       "Classified as billing with high priority. Contains billing-related terms; Contains account-related terms; Contains urgent/critical keywords."

====
